---- MODULE Spec2Model ----
(***************************************************************************)
(* Model of the intrusion-detection scoring service:                       *)
(*   app/utils/feature_extraction.py  (timing features of one flow)        *)
(*   app/routes/prediction_routes.py  (POST /predict)                      *)
(*   config.py                        (thresholds)                         *)
(*                                                                         *)
(* Numbers.  A datetime is the integer number of microseconds since a      *)
(* reference instant (datetime has microsecond resolution).  The floats    *)
(* the extractor returns are modelled exactly, as elements c * sqrt(r) of  *)
(* a quadratic extension of the rationals: [num, den, rad] stands for      *)
(* (num/den) * sqrt(rad), num/den in lowest terms, rad square-free, and    *)
(* rad = 1 for a rational.  Floating-point rounding is not modelled.       *)
(* Probabilities are whole percents (5 stands for 0.05).                   *)
(***************************************************************************)
EXTENDS Integers, Sequences, FiniteSets, TLC

VARIABLES
    packet_data,            \* the request body / the argument of the extractor
    model_loaded,           \* prediction_routes.model_loaded, set at import
    response,               \* what predict() returned
    feature_vector,         \* the row predict() hands to the classifier
    probabilities,          \* what the classifier returned to predict()
    parsed,                 \* what parse_packet_data returned to its caller
    features,               \* what extract_all_features returned to its caller
    time_list,              \* a list of datetimes held by a caller of the utilities
    time_list_0,            \* that list as it was when the caller built it
    ret,                    \* what the last utility call on time_list returned
    op                      \* the last operation called

vars == <<packet_data, model_loaded, response, feature_vector, probabilities,
          parsed, features, time_list, time_list_0, ret, op>>

-----------------------------------------------------------------------------
(* Bounds of the model *)

MaxPackets == 3
MaxTimes == 3

-----------------------------------------------------------------------------
(* config.py *)

IDLE_THRESHOLD == 500000
PREDICTION_THRESHOLD == 5

-----------------------------------------------------------------------------
(* Arithmetic helpers *)

Abs(n) == IF n < 0 THEN -n ELSE n

RECURSIVE GCD(_, _)
GCD(a, b) == IF b = 0 THEN a ELSE GCD(b, a % b)

RECURSIVE Sum(_)
Sum(s) == IF s = <<>> THEN 0 ELSE Head(s) + Sum(Tail(s))

RECURSIVE SumSq(_)
SumSq(s) == IF s = <<>> THEN 0 ELSE Head(s) * Head(s) + SumSq(Tail(s))

RECURSIVE GCDSeq(_)
GCDSeq(s) == IF s = <<>> THEN 0 ELSE GCD(Abs(Head(s)), GCDSeq(Tail(s)))

RECURSIVE MaxSeq(_)
MaxSeq(s) == IF Len(s) = 1 THEN s[1]
             ELSE LET m == MaxSeq(Tail(s)) IN IF Head(s) >= m THEN Head(s) ELSE m

RECURSIVE MinSeq(_)
MinSeq(s) == IF Len(s) = 1 THEN s[1]
             ELSE LET m == MinSeq(Tail(s)) IN IF Head(s) <= m THEN Head(s) ELSE m

\* floor(sqrt(n)) by bisection on lo..hi, lo*lo <= n < (hi+1)*(hi+1)
RECURSIVE IsqrtIn(_, _, _)
IsqrtIn(n, lo, hi) ==
    IF lo = hi THEN lo
    ELSE LET mid == (lo + hi + 1) \div 2
         IN IF mid * mid <= n THEN IsqrtIn(n, mid, hi) ELSE IsqrtIn(n, lo, mid - 1)

Isqrt(n) == IsqrtIn(n, 0, IF n < 46340 THEN n ELSE 46340)

\* the largest s with s*s dividing n (n > 0)
SquarePart(n) ==
    LET r == Isqrt(n)
    IN IF r * r = n THEN r
       ELSE LET S == {s \in 1..r : n % (s * s) = 0}
            IN CHOOSE s \in S : \A t \in S : t <= s

-----------------------------------------------------------------------------
(* Floats, exactly *)

Float(n) == [num |-> n, den |-> 1, rad |-> 1]

Zero == Float(0)

Ratio(a, b) == LET g == GCD(Abs(a), b) IN [num |-> a \div g, den |-> b \div g, rad |-> 1]

\* numpy.mean of a non-empty list
np_mean(xs) == Ratio(Sum(xs), Len(xs))

\* numpy.sum
np_sum(xs) == Float(Sum(xs))

\* A variant of numpy.std with ddof=1 (the sample standard deviation)
np_std_sample(xs) ==
    LET n == Len(xs)
        g == GCDSeq(xs)
    IN IF g = 0 THEN Zero
       ELSE LET ks == [i \in 1..n |-> xs[i] \div g]
                v  == n * SumSq(ks) - Sum(ks) * Sum(ks)
            IN IF v = 0 THEN Zero
               ELSE LET w == v * n * (n - 1)
                        s == SquarePart(w)
                        c == Ratio(g * s, n * (n - 1))
                    IN [num |-> c.num, den |-> c.den, rad |-> w \div (s * s)]

\* numpy.std of a list of non-negative numbers (ddof=0: the population standard
\* deviation, sqrt(mean(|x - mean(x)|^2)) = sqrt(n*sum(x^2) - sum(x)^2) / n),
\* computed on xs/g for g the gcd of xs so that no square leaves the integers
np_std(xs) ==
    LET n == Len(xs)
        g == GCDSeq(xs)
    IN IF g = 0 THEN Zero
       ELSE LET ks == [i \in 1..n |-> xs[i] \div g]
                v  == n * SumSq(ks) - Sum(ks) * Sum(ks)
            IN IF v = 0 THEN Zero
               ELSE LET s == SquarePart(v)
                        c == Ratio(g * s, n)
                    IN [num |-> c.num, den |-> c.den, rad |-> v \div (s * s)]

-----------------------------------------------------------------------------
(* list.sort(): ascending, stable *)

RECURSIVE Insert(_, _)
Insert(x, s) ==
    IF s = <<>> THEN <<x>>
    ELSE IF x < Head(s) THEN <<x>> \o s
    ELSE <<Head(s)>> \o Insert(x, Tail(s))

RECURSIVE list_sort(_)
list_sort(s) == IF s = <<>> THEN <<>> ELSE Insert(s[Len(s)], list_sort(SubSeq(s, 1, Len(s) - 1)))

-----------------------------------------------------------------------------
(* feature_extraction.py: the utilities.  Each takes the caller's list and  *)
(* is modelled by the pair [ret, time_list]: the value returned and the     *)
(* caller's list as the call leaves it.                                     *)

\* A variant of calculate_time_diff that does not sort
calculate_time_diff_unsorted(tl) ==
    IF Len(tl) <= 1 THEN [ret |-> <<>>, time_list |-> tl]
    ELSE [ret |-> [i \in 1..(Len(tl) - 1) |-> tl[i + 1] - tl[i]], time_list |-> tl]

calculate_time_diff(tl) ==
    IF Len(tl) <= 1 THEN [ret |-> <<>>, time_list |-> tl]
    ELSE LET sorted == list_sort(tl)
         IN [ret |-> [i \in 1..(Len(sorted) - 1) |-> sorted[i + 1] - sorted[i]],
             time_list |-> sorted]

calculate_idle_times(tl, threshold) ==
    LET d == calculate_time_diff(tl)
    IN [ret |-> SelectSeq(d.ret, LAMBDA diff : diff > threshold), time_list |-> d.time_list]

\* numpy's nan
NaN == [num |-> 0, den |-> 0, rad |-> 1]

\* A variant of extract_fwd_iat_std without the "at least 2 values" guard
extract_fwd_iat_std_unguarded(forward_packet_times) ==
    LET d == calculate_time_diff(forward_packet_times)
    IN [ret |-> IF d.ret = <<>> THEN NaN ELSE np_std(d.ret), time_list |-> d.time_list]

extract_fwd_iat_std(forward_packet_times) ==
    LET d == calculate_time_diff(forward_packet_times)
    IN [ret |-> IF Len(d.ret) < 2 THEN Zero ELSE np_std(d.ret), time_list |-> d.time_list]

extract_bwd_iat_std(backward_packet_times) ==
    LET d == calculate_time_diff(backward_packet_times)
    IN [ret |-> IF Len(d.ret) < 2 THEN Zero ELSE np_std(d.ret), time_list |-> d.time_list]

extract_flow_iat_std(all_packet_times) ==
    LET d == calculate_time_diff(all_packet_times)
    IN [ret |-> IF Len(d.ret) < 2 THEN Zero ELSE np_std(d.ret), time_list |-> d.time_list]

extract_fwd_iat_max(forward_packet_times) ==
    LET d == calculate_time_diff(forward_packet_times)
    IN [ret |-> IF d.ret = <<>> THEN Zero ELSE Float(MaxSeq(d.ret)), time_list |-> d.time_list]

extract_flow_iat_mean(all_packet_times) ==
    LET d == calculate_time_diff(all_packet_times)
    IN [ret |-> IF d.ret = <<>> THEN Zero ELSE np_mean(d.ret), time_list |-> d.time_list]

extract_flow_iat_max(all_packet_times) ==
    LET d == calculate_time_diff(all_packet_times)
    IN [ret |-> IF d.ret = <<>> THEN Zero ELSE Float(MaxSeq(d.ret)), time_list |-> d.time_list]

extract_fwd_iat_mean(forward_packet_times) ==
    LET d == calculate_time_diff(forward_packet_times)
    IN [ret |-> IF d.ret = <<>> THEN Zero ELSE np_mean(d.ret), time_list |-> d.time_list]

extract_fwd_iat_total(forward_packet_times) ==
    LET d == calculate_time_diff(forward_packet_times)
    IN [ret |-> IF d.ret = <<>> THEN Zero ELSE np_sum(d.ret), time_list |-> d.time_list]

\* max() and min() of the list: no call of calculate_time_diff, no sort
extract_flow_duration(all_packet_times) ==
    [ret |-> IF Len(all_packet_times) < 2 THEN Zero
             ELSE Float(MaxSeq(all_packet_times) - MinSeq(all_packet_times)),
     time_list |-> all_packet_times]

extract_bwd_iat_max(backward_packet_times) ==
    LET d == calculate_time_diff(backward_packet_times)
    IN [ret |-> IF d.ret = <<>> THEN Zero ELSE Float(MaxSeq(d.ret)), time_list |-> d.time_list]

extract_idle_max(all_packet_times, threshold) ==
    LET d == calculate_idle_times(all_packet_times, threshold)
    IN [ret |-> IF d.ret = <<>> THEN Zero ELSE Float(MaxSeq(d.ret)), time_list |-> d.time_list]

extract_idle_mean(all_packet_times, threshold) ==
    LET d == calculate_idle_times(all_packet_times, threshold)
    IN [ret |-> IF d.ret = <<>> THEN Zero ELSE np_mean(d.ret), time_list |-> d.time_list]

-----------------------------------------------------------------------------
(* Packets.  A packet is a dict: a function from the keys it has to their   *)
(* values.  A timestamp is a string: [ms |-> k] is the ISO-8601 text of the *)
(* instant k milliseconds after the reference instant, [text |-> ...] is a  *)
(* string that is no ISO-8601 timestamp.                                    *)

NoneValue == [none |-> TRUE]

\* datetime.fromisoformat: the datetime (in microseconds), or ValueError
fromisoformat(s) ==
    IF "ms" \in DOMAIN s THEN [raised |-> "none", value |-> s.ms * 1000]
    ELSE [raised |-> "ValueError", value |-> NoneValue]

\* packet[key]: the value, or KeyError
HasKey(packet, key) == key \in DOMAIN packet

-----------------------------------------------------------------------------
(* feature_extraction.py: parse_packet_data *)

\* One pass of the loop body on `packet`, from the lists in acc
\* A variant that compares the source address only
parse_one_packet_ip_only(acc, packet, first_src_ip, first_src_port) ==
    IF ~HasKey(packet, "timestamp") THEN acc
    ELSE LET ts == fromisoformat(packet["timestamp"])
         IN IF ts.raised # "none" THEN acc
            ELSE LET acc1 == [acc EXCEPT !.all = Append(@, ts.value)]
                 IN IF ~HasKey(packet, "src_ip") THEN acc1
                    ELSE IF packet["src_ip"] = first_src_ip
                         THEN [acc1 EXCEPT !.forward = Append(@, ts.value)]
                         ELSE [acc1 EXCEPT !.backward = Append(@, ts.value)]

\* One pass of the loop body (lines 247-260) on `packet`, from the lists in acc:
\* a KeyError or ValueError ends the pass and keeps what it appended so far
parse_one_packet(acc, packet, first_src_ip, first_src_port) ==
    IF ~HasKey(packet, "timestamp") THEN acc
    ELSE LET ts == fromisoformat(packet["timestamp"])
         IN IF ts.raised # "none" THEN acc
            ELSE LET acc1 == [acc EXCEPT !.all = Append(@, ts.value)]
                 IN IF ~HasKey(packet, "src_ip") THEN acc1
                    ELSE IF packet["src_ip"] = first_src_ip
                         THEN IF ~HasKey(packet, "src_port") THEN acc1
                              ELSE IF packet["src_port"] = first_src_port
                                   THEN [acc1 EXCEPT !.forward = Append(@, ts.value)]
                                   ELSE [acc1 EXCEPT !.backward = Append(@, ts.value)]
                         ELSE [acc1 EXCEPT !.backward = Append(@, ts.value)]

RECURSIVE parse_loop(_, _, _, _, _)
parse_loop(acc, pd, i, first_src_ip, first_src_port) ==
    IF i > Len(pd) THEN acc
    ELSE parse_loop(parse_one_packet(acc, pd[i], first_src_ip, first_src_port),
                    pd, i + 1, first_src_ip, first_src_port)

NoLists == [forward |-> <<>>, backward |-> <<>>, all |-> <<>>]

\* [raised, forward, backward, all]
parse_packet_data(pd) ==
    IF Len(pd) = 0 THEN [raised |-> "none"] @@ NoLists
    ELSE IF ~HasKey(pd[1], "src_ip") \/ ~HasKey(pd[1], "src_port")
         THEN [raised |-> "KeyError"] @@ NoLists
    ELSE [raised |-> "none"] @@ parse_loop(NoLists, pd, 1, pd[1]["src_ip"], pd[1]["src_port"])

-----------------------------------------------------------------------------
(* feature_extraction.py: extract_all_features *)

FeatureNames ==
    {"Fwd IAT Std", "Bwd IAT Std", "Flow IAT Std", "Fwd IAT Max", "Flow IAT Mean",
     "Flow IAT Max", "Fwd IAT Mean", "Fwd IAT Total", "Flow Duration", "Bwd IAT Max",
     "Idle Max", "Idle Mean"}

\* [raised, features]: the dict literal is evaluated entry by entry, each call
\* on the list the previous calls left
extract_all_features(pd) ==
    LET p == parse_packet_data(pd)
    IN IF p.raised # "none" THEN [raised |-> p.raised, features |-> NoneValue]
       ELSE LET e1  == extract_fwd_iat_std(p.forward)
                e2  == extract_bwd_iat_std(p.backward)
                e3  == extract_flow_iat_std(p.all)
                e4  == extract_fwd_iat_max(e1.time_list)
                e5  == extract_flow_iat_mean(e3.time_list)
                e6  == extract_flow_iat_max(e5.time_list)
                e7  == extract_fwd_iat_mean(e4.time_list)
                e8  == extract_fwd_iat_total(e7.time_list)
                e9  == extract_flow_duration(e6.time_list)
                e10 == extract_bwd_iat_max(e2.time_list)
                e11 == extract_idle_max(e9.time_list, IDLE_THRESHOLD)
                e12 == extract_idle_mean(e11.time_list, IDLE_THRESHOLD)
            IN [raised |-> "none",
                features |->
                    ("Fwd IAT Std"   :> e1.ret)  @@ ("Bwd IAT Std"   :> e2.ret) @@
                    ("Flow IAT Std"  :> e3.ret)  @@ ("Fwd IAT Max"   :> e4.ret) @@
                    ("Flow IAT Mean" :> e5.ret)  @@ ("Flow IAT Max"  :> e6.ret) @@
                    ("Fwd IAT Mean"  :> e7.ret)  @@ ("Fwd IAT Total" :> e8.ret) @@
                    ("Flow Duration" :> e9.ret)  @@ ("Bwd IAT Max"   :> e10.ret) @@
                    ("Idle Max"      :> e11.ret) @@ ("Idle Mean"     :> e12.ret)]

-----------------------------------------------------------------------------
(* prediction_routes.py: predict *)

required_fields == <<"timestamp", "src_ip", "dst_ip", "src_port", "dst_port">>

expected_cols ==
    <<"Fwd IAT Std", "Bwd IAT Std", "Flow IAT Std", "Fwd IAT Max", "Flow IAT Mean",
      "Flow IAT Max", "Fwd IAT Mean", "Fwd IAT Total", "Flow Duration", "Bwd IAT Max",
      "Idle Max", "Idle Mean">>

\* A variant that reports the first missing field only
missing_fields_first_only(packet) ==
    LET all == SelectSeq(required_fields, LAMBDA field : ~HasKey(packet, field))
    IN IF all = <<>> THEN <<>> ELSE <<all[1]>>

missing_fields(packet) == SelectSeq(required_fields, LAMBDA field : ~HasKey(packet, field))

\* The validation loop: the missing fields of the first packet that lacks any,
\* <<>> when no packet does
RECURSIVE first_missing_fields(_, _)
first_missing_fields(pd, i) ==
    IF i > Len(pd) THEN <<>>
    ELSE IF missing_fields(pd[i]) # <<>> THEN missing_fields(pd[i])
    ELSE first_missing_fields(pd, i + 1)

Error(status, message, detail) ==
    [status |-> status, error |-> [message |-> message, detail |-> detail]]

\* A variant of the decision rule with >= for >
decide_at_least(proba) == proba[2] >= PREDICTION_THRESHOLD

\* probabilities[1] > Config.PREDICTION_THRESHOLD (the list is 0-based there)
decide(proba) == proba[2] > PREDICTION_THRESHOLD

\* A variant of the handler that validates the request before it looks at the model
predict_validate_first(pd, loaded, proba) ==
    LET none == [feature_vector |-> NoneValue, probabilities |-> NoneValue]
    IN IF Len(pd) = 0
       THEN [response |-> Error(400, "Empty packet data", <<>>)] @@ none
       ELSE IF first_missing_fields(pd, 1) # <<>>
       THEN [response |-> Error(400, "Missing required fields in packet: ",
                                first_missing_fields(pd, 1))] @@ none
       ELSE IF ~loaded
       THEN [response |-> Error(503, "Model not loaded. Check server logs.", <<>>)] @@ none
       ELSE LET f == extract_all_features(pd)
                row == [c \in 1..Len(expected_cols) |-> f.features[expected_cols[c]]]
                is_attack == decide(proba)
            IN [response |-> [status |-> 200,
                              prediction |-> IF is_attack THEN 1 ELSE 0,
                              is_attack |-> is_attack],
                feature_vector |-> row,
                probabilities |-> proba]

\* The handler on request body pd, with the classifier answering proba when asked:
\* [response, feature_vector, probabilities], the last two None when the handler
\* returned before it built the row or asked the classifier
predict(pd, loaded, proba) ==
    LET none == [feature_vector |-> NoneValue, probabilities |-> NoneValue]
    IN IF ~loaded
       THEN [response |-> Error(503, "Model not loaded. Check server logs.", <<>>)] @@ none
       ELSE IF Len(pd) = 0
       THEN [response |-> Error(400, "Empty packet data", <<>>)] @@ none
       ELSE IF first_missing_fields(pd, 1) # <<>>
       THEN [response |-> Error(400, "Missing required fields in packet: ",
                                first_missing_fields(pd, 1))] @@ none
       ELSE LET f == extract_all_features(pd)
            IN IF f.raised = "ValueError"
               THEN [response |-> Error(400, "Invalid data format: ", <<f.raised>>)] @@ none
               ELSE IF f.raised # "none"
               THEN [response |-> Error(500, "Server error: ", <<f.raised>>)] @@ none
               ELSE LET row == [c \in 1..Len(expected_cols) |-> f.features[expected_cols[c]]]
                        is_attack == decide(proba)
                    IN [response |-> [status |-> 200,
                                      prediction |-> IF is_attack THEN 1 ELSE 0,
                                      is_attack |-> is_attack],
                        feature_vector |-> row,
                        probabilities |-> proba]

-----------------------------------------------------------------------------
(* Inputs *)

\* Timestamps, in milliseconds after the reference instant: gaps of 1, 2 and 3 ms
\* and gaps above the idle threshold
Millis == {0, 1, 3, 504}

TimePoints == {ms * 1000 : ms \in Millis}

Sources == {<<"10.0.0.1", 40000>>, <<"10.0.0.1", 40001>>, <<"10.0.0.2", 40000>>}

Packet(ts, src) ==
    [timestamp |-> ts, src_ip |-> src[1], src_port |-> src[2],
     dst_ip |-> "10.0.0.9", dst_port |-> 443]

Without(packet, keys) == [k \in (DOMAIN packet) \ keys |-> packet[k]]

WellFormedPackets == {Packet([ms |-> ms], src) : ms \in Millis, src \in Sources}

BadTimestampPackets ==
    {Packet([text |-> "yesterday"], src) : src \in {<<"10.0.0.1", 40000>>, <<"10.0.0.2", 40000>>}}

IncompletePackets ==
    { Without(Packet([ms |-> 1], <<"10.0.0.1", 40000>>), {"timestamp"}),
      Without(Packet([ms |-> 1], <<"10.0.0.1", 40000>>), {"src_ip"}),
      Without(Packet([ms |-> 1], <<"10.0.0.1", 40000>>), {"src_port"}),
      Without(Packet([ms |-> 1], <<"10.0.0.2", 40000>>), {"src_port"}),
      Without(Packet([ms |-> 3], <<"10.0.0.1", 40000>>), {"dst_port"}),
      Without(Packet([ms |-> 0], <<"10.0.0.2", 40000>>), {"src_ip", "dst_port"}) }

Packets == WellFormedPackets \cup BadTimestampPackets \cup IncompletePackets

\* predict_proba's answers, <<p_benign, p_attack>> in percent
ProbPairs == {<<100 - a, a>> : a \in {0, 4, 5, 6, 95, 100}}

\* The rearrangements of a list
Perms(s) == {[i \in 1..Len(s) |-> s[f[i]]] : f \in Permutations(1..Len(s))}

-----------------------------------------------------------------------------
(* The service: one request to POST /predict *)

\* The caller puts one more packet into the list it is about to submit
AddPacket ==
    /\ op = "none"
    /\ Len(packet_data) < MaxPackets
    /\ \E packet \in Packets : packet_data' = Append(packet_data, packet)
    /\ UNCHANGED <<model_loaded, response, feature_vector, probabilities, parsed, features,
                   time_list, time_list_0, ret, op>>

InitService ==
    /\ packet_data = <<>>
    /\ model_loaded \in BOOLEAN
    /\ response = NoneValue
    /\ feature_vector = NoneValue
    /\ probabilities = NoneValue
    /\ parsed = NoneValue
    /\ features = NoneValue
    /\ time_list = <<>>
    /\ time_list_0 = <<>>
    /\ ret = NoneValue
    /\ op = "none"

Predict ==
    /\ op = "none"
    /\ \E proba \in ProbPairs :
          /\ response' = predict(packet_data, model_loaded, proba).response
          /\ feature_vector' = predict(packet_data, model_loaded, proba).feature_vector
          /\ probabilities' = predict(packet_data, model_loaded, proba).probabilities
    /\ op' = "predict"
    /\ UNCHANGED <<packet_data, model_loaded, parsed, features, time_list, time_list_0, ret>>

NextService == AddPacket \/ Predict

SpecService == InitService /\ [][NextService]_vars

-----------------------------------------------------------------------------
(* The extractor called on a packet list *)

InitExtract ==
    /\ packet_data = <<>>
    /\ model_loaded = FALSE
    /\ response = NoneValue
    /\ feature_vector = NoneValue
    /\ probabilities = NoneValue
    /\ parsed = NoneValue
    /\ features = NoneValue
    /\ time_list = <<>>
    /\ time_list_0 = <<>>
    /\ ret = NoneValue
    /\ op = "none"

ParsePacketData ==
    /\ op = "none"
    /\ parsed' = parse_packet_data(packet_data)
    /\ op' = "parse_packet_data"
    /\ UNCHANGED <<packet_data, model_loaded, response, feature_vector, probabilities,
                   features, time_list, time_list_0, ret>>

ExtractAllFeatures ==
    /\ op = "none"
    /\ features' = extract_all_features(packet_data)
    /\ op' = "extract_all_features"
    /\ UNCHANGED <<packet_data, model_loaded, response, feature_vector, probabilities,
                   parsed, time_list, time_list_0, ret>>

NextExtract == AddPacket \/ ParsePacketData \/ ExtractAllFeatures

SpecExtract == InitExtract /\ [][NextExtract]_vars

-----------------------------------------------------------------------------
(* The utilities called, in any order, on a list the caller keeps *)

Reducers ==
    {"extract_fwd_iat_std", "extract_bwd_iat_std", "extract_flow_iat_std",
     "extract_fwd_iat_max", "extract_flow_iat_mean", "extract_flow_iat_max",
     "extract_fwd_iat_mean", "extract_fwd_iat_total", "extract_flow_duration",
     "extract_bwd_iat_max", "extract_idle_max", "extract_idle_mean"}

reducer(name, tl) ==
    CASE name = "extract_fwd_iat_std"   -> extract_fwd_iat_std(tl)
      [] name = "extract_bwd_iat_std"   -> extract_bwd_iat_std(tl)
      [] name = "extract_flow_iat_std"  -> extract_flow_iat_std(tl)
      [] name = "extract_fwd_iat_max"   -> extract_fwd_iat_max(tl)
      [] name = "extract_flow_iat_mean" -> extract_flow_iat_mean(tl)
      [] name = "extract_flow_iat_max"  -> extract_flow_iat_max(tl)
      [] name = "extract_fwd_iat_mean"  -> extract_fwd_iat_mean(tl)
      [] name = "extract_fwd_iat_total" -> extract_fwd_iat_total(tl)
      [] name = "extract_flow_duration" -> extract_flow_duration(tl)
      [] name = "extract_bwd_iat_max"   -> extract_bwd_iat_max(tl)
      [] name = "extract_idle_max"      -> extract_idle_max(tl, IDLE_THRESHOLD)
      [] name = "extract_idle_mean"     -> extract_idle_mean(tl, IDLE_THRESHOLD)

\* The caller puts one more datetime into the list it is about to pass
AddTime ==
    /\ op = "none"
    /\ Len(time_list) < MaxTimes
    /\ \E t \in TimePoints :
          /\ time_list' = Append(time_list, t)
          /\ time_list_0' = Append(time_list_0, t)
    /\ UNCHANGED <<packet_data, model_loaded, response, feature_vector, probabilities,
                   parsed, features, ret, op>>

InitDiff ==
    /\ packet_data = <<>>
    /\ model_loaded = FALSE
    /\ response = NoneValue
    /\ feature_vector = NoneValue
    /\ probabilities = NoneValue
    /\ parsed = NoneValue
    /\ features = NoneValue
    /\ time_list = <<>>
    /\ time_list_0 = <<>>
    /\ ret = NoneValue
    /\ op = "none"

Called(name, r) ==
    /\ time_list' = r.time_list
    /\ ret' = [value |-> r.ret]
    /\ op' = name
    /\ UNCHANGED <<packet_data, model_loaded, response, feature_vector, probabilities,
                   parsed, features, time_list_0>>

CalculateTimeDiff == Called("calculate_time_diff", calculate_time_diff(time_list))

CalculateIdleTimes ==
    Called("calculate_idle_times", calculate_idle_times(time_list, IDLE_THRESHOLD))

Reduce == \E name \in Reducers : Called(name, reducer(name, time_list))

NextDiff == AddTime \/ CalculateTimeDiff \/ CalculateIdleTimes \/ Reduce

SpecDiff == InitDiff /\ [][NextDiff]_vars

-----------------------------------------------------------------------------
(* Vocabulary of the properties *)

\* packet[key] as an optional value
Get(packet, key) == IF HasKey(packet, key) THEN [value |-> packet[key]] ELSE NoneValue

\* The (src_ip, src_port) pair of a packet
Initiator(packet) == <<Get(packet, "src_ip"), Get(packet, "src_port")>>

Parses(packet) == HasKey(packet, "timestamp") /\ fromisoformat(packet["timestamp"]).raised = "none"

TimeOf(packet) == fromisoformat(packet["timestamp"]).value

\* A packet with a timestamp that parses and both source keys
WellFormed(packet) == Parses(packet) /\ HasKey(packet, "src_ip") /\ HasKey(packet, "src_port")

TimesOf(pd) == [i \in 1..Len(pd) |-> TimeOf(pd[i])]

Range(s) == {s[i] : i \in 1..Len(s)}

Validated(pd) == Len(pd) > 0 /\ \A i \in 1..Len(pd) : missing_fields(pd[i]) = <<>>

\* The index of the first packet lacking a required field, 0 when there is none
FirstOffender(pd) ==
    LET bad == {i \in 1..Len(pd) : \E k \in Range(required_fields) : ~HasKey(pd[i], k)}
    IN IF bad = {} THEN 0 ELSE CHOOSE i \in bad : \A j \in bad : i <= j

EmptyInput == Error(400, "Empty packet data", <<>>)

ModelUnavailable == Error(503, "Model not loaded. Check server logs.", <<>>)

IsMissingFields(r) == r.status = 400 /\ r.error.message = "Missing required fields in packet: "

Extracted == op = "extract_all_features"

Parsed == op = "parse_packet_data"

Answered == op = "predict"

-----------------------------------------------------------------------------
(* C1 *)

\* C1, as claimed, on lists of well-formed packets: every rearrangement of the
\* packet list gives the same features as the list itself.
C1_AnyPermutation ==
    (Extracted /\ \A i \in 1..Len(packet_data) : WellFormed(packet_data[i])) =>
        \A P \in Perms(packet_data) : extract_all_features(P) = features

\* C1, amended: every rearrangement of the packet list whose first packet has the
\* (src_ip, src_port) of the list's first packet gives the same features as the
\* list itself; the list itself is one of them (two calls on the same list agree).
C1_SameInitiatorPermutation ==
    Extracted =>
        \A P \in Perms(packet_data) :
            (Len(P) > 0 /\ Initiator(P[1]) = Initiator(packet_data[1]))
                => extract_all_features(P) = features

\* C1 witness: a 3-packet flow of both directions, extracted, with a forward gap,
\* that has a rearrangement starting with another packet of the same initiator.
C1_Witness ==
    /\ Extracted
    /\ Len(packet_data) = 3
    /\ features.raised = "none"
    /\ features.features["Fwd IAT Max"] # Zero
    /\ \E i \in 2..3 : WellFormed(packet_data[i])
                       /\ Initiator(packet_data[i]) # Initiator(packet_data[1])
    /\ \E P \in Perms(packet_data) :
          P[1] # packet_data[1] /\ Initiator(P[1]) = Initiator(packet_data[1])

-----------------------------------------------------------------------------
(* C2 *)

\* Three well-formed packets of one source, at t, t+1000us and t+3000us
C2_Flow ==
    /\ Extracted
    /\ Len(packet_data) = 3
    /\ \A i \in 1..3 : WellFormed(packet_data[i])
                       /\ Initiator(packet_data[i]) = Initiator(packet_data[1])
    /\ \E t \in TimePoints : TimesOf(packet_data) = <<t, t + 1000, t + 3000>>

\* C2, as claimed: on that flow Fwd IAT Mean = 2000, Max = 2000, Total = 3000,
\* Std = 1000, and Bwd IAT Std = Bwd IAT Max = 0.
C2_AsClaimed ==
    C2_Flow =>
        /\ features.features["Fwd IAT Mean"] = Float(2000)
        /\ features.features["Fwd IAT Max"] = Float(2000)
        /\ features.features["Fwd IAT Total"] = Float(3000)
        /\ features.features["Fwd IAT Std"] = Float(1000)
        /\ features.features["Bwd IAT Std"] = Zero
        /\ features.features["Bwd IAT Max"] = Zero

\* C2, amended: on that flow Fwd IAT Mean = 1500 and Fwd IAT Std = 500 (the mean
\* and the population standard deviation of [1000, 2000]), Fwd IAT Max = 2000,
\* Fwd IAT Total = 3000, and Bwd IAT Std = Bwd IAT Max = 0.
C2_MeanAndStd ==
    C2_Flow =>
        /\ features.features["Fwd IAT Mean"] = Float(1500)
        /\ features.features["Fwd IAT Max"] = Float(2000)
        /\ features.features["Fwd IAT Total"] = Float(3000)
        /\ features.features["Fwd IAT Std"] = Float(500)
        /\ features.features["Bwd IAT Std"] = Zero
        /\ features.features["Bwd IAT Max"] = Zero

\* C2 witness: the flow of the scenario, extracted without an exception.
C2_Witness == C2_Flow /\ features.raised = "none"

-----------------------------------------------------------------------------
(* C3 *)

\* C3, as claimed: in every model state an empty request gets EmptyInput, a
\* request with an incomplete packet gets MissingFields, and 503 is returned only
\* to requests that passed validation.
C3_ValidationFirst ==
    Answered =>
        /\ Len(packet_data) = 0 => response = EmptyInput
        /\ (Len(packet_data) > 0 /\ FirstOffender(packet_data) # 0) => IsMissingFields(response)
        /\ response.status = 503 => Validated(packet_data)

\* C3, amended: the model check runs first.  When the model failed to load every
\* request, valid or not, gets ModelUnavailable (503); when it is loaded, an empty
\* request gets EmptyInput, a request with an incomplete packet gets MissingFields,
\* both before any feature is extracted, and no request gets 503.
C3_ModelCheckFirst ==
    Answered =>
        /\ ~model_loaded => response = ModelUnavailable
        /\ model_loaded =>
            /\ Len(packet_data) = 0 => response = EmptyInput
            /\ (Len(packet_data) > 0 /\ FirstOffender(packet_data) # 0)
                   => IsMissingFields(response)
            /\ response.status # 503
        /\ response.status = 400 => feature_vector = NoneValue

\* C3 witness: an empty request answered while the model is not loaded.
C3_Witness ==
    Answered /\ ~model_loaded /\ Len(packet_data) = 0 /\ response.status = 503

-----------------------------------------------------------------------------
(* C4 *)

\* A non-empty request with a packet that lacks a required field
C4_Request == Answered /\ Len(packet_data) > 0 /\ FirstOffender(packet_data) # 0

\* The response tells which packet is the offending one: requests that differ only
\* in the position of their packets and get the same response have the same offender
C4_TellsWhichPacket ==
    \A P \in Perms(packet_data) :
        predict(P, model_loaded, <<100, 0>>).response = response
            => FirstOffender(P) = FirstOffender(packet_data)

C4_NamesMissingKeys ==
    /\ IsMissingFields(response)
    /\ Range(response.error.detail) =
           Range(required_fields) \ DOMAIN packet_data[FirstOffender(packet_data)]
    /\ Len(response.error.detail) = Cardinality(Range(response.error.detail))

C4_NoFeatureWork == feature_vector = NoneValue /\ probabilities = NoneValue

\* C4, as claimed, with the model loaded: such a request gets MissingFields naming
\* exactly the keys the offending packet lacks and telling which packet it is,
\* with no extraction or scoring.
C4_AsClaimed ==
    (C4_Request /\ model_loaded) =>
        C4_NamesMissingKeys /\ C4_TellsWhichPacket /\ C4_NoFeatureWork

\* C4, amended: when the model is loaded, such a request gets MissingFields naming
\* exactly the keys the first offending packet lacks, with no extraction or
\* scoring (the response does not tell which packet it is).
C4_NamesKeysOnly ==
    (C4_Request /\ model_loaded) => C4_NamesMissingKeys /\ C4_NoFeatureWork

\* C4 witness: the second packet lacks two keys, the response names both, and the
\* same response is given when the offender is moved to the front.
C4_Witness ==
    /\ C4_Request
    /\ model_loaded
    /\ FirstOffender(packet_data) = 2
    /\ Len(response.error.detail) = 2
    /\ ~C4_TellsWhichPacket

-----------------------------------------------------------------------------
(* C5 *)

\* C5, as claimed: parse_packet_data returns normally on every list, a packet
\* that is not well-formed is in none of the three lists, a well-formed one is in
\* all and in exactly one of forward and backward.
C5_SkipsMalformed ==
    Parsed =>
        /\ parsed.raised = "none"
        /\ Len(parsed.all) = Len(SelectSeq(packet_data, WellFormed))
        /\ Len(parsed.all) = Len(parsed.forward) + Len(parsed.backward)

-----------------------------------------------------------------------------
(* C6 *)

\* Every packet has both source keys (as after the request validation)
C6_Flow ==
    /\ Parsed
    /\ Len(packet_data) > 0
    /\ \A i \in 1..Len(packet_data) :
          HasKey(packet_data[i], "src_ip") /\ HasKey(packet_data[i], "src_port")

\* C6: forward holds, in list order, the times of the packets whose
\* (src_ip, src_port) is that of the first submitted packet, backward those of
\* all other packets, whatever their timestamps; the first packet is forward.
C6_DirectionPartition ==
    C6_Flow =>
        LET first == Initiator(packet_data[1])
            fwd == SelectSeq(packet_data, LAMBDA q : Parses(q) /\ Initiator(q) = first)
            bwd == SelectSeq(packet_data, LAMBDA q : Parses(q) /\ Initiator(q) # first)
        IN /\ parsed.raised = "none"
           /\ parsed.forward = TimesOf(fwd)
           /\ parsed.backward = TimesOf(bwd)
           /\ Parses(packet_data[1]) =>
                  Len(parsed.forward) > 0 /\ parsed.forward[1] = TimeOf(packet_data[1])

\* C6 witness: the first packet is the latest in time, one later packet shares
\* only its address, another only its port, and both went backward.
C6_Witness ==
    /\ C6_Flow
    /\ Len(packet_data) = 3
    /\ \A i \in 1..3 : WellFormed(packet_data[i])
    /\ \A i \in 2..3 : TimeOf(packet_data[i]) < TimeOf(packet_data[1])
    /\ packet_data[2]["src_ip"] = packet_data[1]["src_ip"]
    /\ packet_data[2]["src_port"] # packet_data[1]["src_port"]
    /\ packet_data[3]["src_ip"] # packet_data[1]["src_ip"]
    /\ packet_data[3]["src_port"] = packet_data[1]["src_port"]
    /\ Len(parsed.forward) = 1
    /\ Len(parsed.backward) = 2

-----------------------------------------------------------------------------
(* C7 *)

\* C7: in a verdict, is_attack is p_attack > threshold and prediction is 1 exactly
\* when is_attack; p_attack = 0.05 gives false, p_attack = 0.06 gives true and 1.
C7_StrictThreshold ==
    (Answered /\ response.status = 200) =>
        /\ response.is_attack = (probabilities[2] > PREDICTION_THRESHOLD)
        /\ response.prediction = (IF response.is_attack THEN 1 ELSE 0)
        /\ probabilities[2] = 5 => ~response.is_attack
        /\ probabilities[2] = 6 => response.is_attack /\ response.prediction = 1

\* C7 witness: a verdict for p_attack = 0.05, which is not an attack.
C7_Witness ==
    Answered /\ response.status = 200 /\ probabilities[2] = 5 /\ response.prediction = 0

-----------------------------------------------------------------------------
(* C8 *)

DocumentedOrder ==
    <<"Fwd IAT Std", "Bwd IAT Std", "Flow IAT Std", "Fwd IAT Max", "Flow IAT Mean",
      "Flow IAT Max", "Fwd IAT Mean", "Fwd IAT Total", "Flow Duration", "Bwd IAT Max",
      "Idle Max", "Idle Mean">>

\* A finite number that is not negative
IsNumber(v) == DOMAIN v = {"num", "den", "rad"} /\ v.den >= 1 /\ v.num >= 0 /\ v.rad >= 1

-----------------------------------------------------------------------------
(* C9 *)

\* C9: calculate_time_diff returns the same list for every rearrangement of its
\* input, of length max(0, n-1), with no negative element.
C9_PermutationInvariant ==
    op = "calculate_time_diff" =>
        /\ \A P \in Perms(time_list_0) : calculate_time_diff(P).ret = ret.value
        /\ Len(ret.value) = (IF Len(time_list_0) = 0 THEN 0 ELSE Len(time_list_0) - 1)
        /\ \A i \in 1..Len(ret.value) : ret.value[i] >= 0

\* C9 witness: a list of three times given out of order, with its two gaps.
C9_Witness ==
    /\ op = "calculate_time_diff"
    /\ Len(time_list_0) = 3
    /\ time_list_0[1] > time_list_0[2]
    /\ Len(ret.value) = 2
    /\ ret.value[1] > 0

-----------------------------------------------------------------------------
(* C10 *)

\* C10, as claimed: the utilities leave the list passed to them as it was, the
\* same elements in the same order.
C10_ListUnchanged == time_list = time_list_0

====
